---- MODULE Spec2Model ----
(***************************************************************************)
(* HR-Management-Backend: the attendance and leave record lifecycles       *)
(* (src/routes/attendance.js, src/routes/leaves.js) with the schema hooks  *)
(* that derive their fields (src/models/Attendance.js, the Leave schema in *)
(* src/unnamed/part_001).                                                  *)
(*                                                                         *)
(* Every route handler is `await find...; <continuation>; await save`.     *)
(* A request is therefore two steps: the read at the database (which may   *)
(* answer at once with an error), and the continuation together with its   *)
(* write.  Requests in flight sit in slots between the two steps.          *)
(*                                                                         *)
(* The database is connected (mongoose.connection.readyState === 1): the   *)
(* mock-data mode of the routes persists nothing and is not modelled.      *)
(*                                                                         *)
(* Representation.  Timestamps are minutes since the model's epoch.  Hours *)
(* are fixed point in units of 1/(HourMin*Cent) hour, so that both the     *)
(* exact quotient minutes/60 and a value rounded to two decimals are       *)
(* integers.  Leave day counts are fixed point in half days.               *)
(***************************************************************************)
EXTENDS Integers, FiniteSets, Sequences, TLC

\* null / undefined of a Date field; no timestamp is negative.
Null == 0 - 1

(***************************************************************************)
(* Bounds of the model.                                                    *)
(***************************************************************************)
MaxDay == 2
MaxInFlight == 2
MaxAttIds == 2
MaxLeaveIds == 2
MaxCallIds == 2

(***************************************************************************)
(* Program constants.                                                      *)
(***************************************************************************)
DayMin == 1440
HourMin == 60
Cent == 100
StandardHours == 8
HalfDayHours == 4
\* totalDays = 0.5, in half days
HalfDayTotal == 1
\* The weights of the performance score (40, 30, 0.2, 0.1), in tenths of a point.
VisitedWeight == 400
InterestedWeight == 300
CallTimeWeight == 2
CallsWeight == 1

\* One hour in the fixed-point unit of totalHours / overtimeHours.
HourUnit == HourMin * Cent

Employees == {"e1", "e2"}
Admins == {"adm"}
\* The employee whose attendance is followed, and who acts on the records of
\* others.
Staff == {"e1"}
Actors == Staff \cup Admins
role(a) == IF a \in Admins THEN "admin" ELSE "employee"

Days == 1..MaxDay
\* Minutes of the day at which the clock is observed / supplied by an admin.
DayInstants == {540, 1021}
At(d, m) == d * DayMin + m
Instants == {At(d, m) : d \in Days, m \in DayInstants}
\* Bodies an admin sends: clockIn, clockOut (Null: left out) and status ("": left
\* out) for the day that starts at dayStart.
Body(ci, co, st) == [clockIn |-> ci, clockOut |-> co, status |-> st]
ManualBodies(dayStart) ==
  {Body(Null, Null, "Absent"),
   Body(Null, dayStart + 541, "Absent"),
   Body(dayStart + 540, dayStart + 541, "Absent"),
   Body(dayStart + 541, dayStart + 540, "Present")}
UpdateBodies(dayStart) ==
  {Body(dayStart + 541, Null, ""),
   Body(Null, dayStart + 780, ""),
   Body(Null, Null, "Absent")}
NoBody == Body(Null, Null, "")

VARIABLES now, attendance, attNextId, attReq, attResp,
          leaves, leaveNextId, leaveReq, leaveResp,
          calls, callNextId, callReq, callResp

vars == <<now, attendance, attNextId, attReq, attResp,
          leaves, leaveNextId, leaveReq, leaveResp,
          calls, callNextId, callReq, callResp>>
attVars == <<attendance, attNextId, attReq, attResp>>
leaveVars == <<leaves, leaveNextId, leaveReq, leaveResp>>
callVars == <<calls, callNextId, callReq, callResp>>

Slots == 1..MaxInFlight

\* today.setHours(0, 0, 0, 0)
DayStart(t) == (t \div DayMin) * DayMin

\* Math.round(x) for x = n / d, d > 0: the nearest integer, halves going up.
MathRound(n, d) == (2 * n + d) \div (2 * d)

Max(a, b) == IF a >= b THEN a ELSE b

\* Date - Date in a route, where a null operand coerces to 0.
DateDiff(hi, lo) == (IF hi = Null THEN 0 ELSE hi) - (IF lo = Null THEN 0 ELSE lo)

\* Math.round((timeDiff / (1000 * 60 * 60)) * 100) / 100, in the fixed-point unit.
RoundedHours(timeDiff) == MathRound(timeDiff * Cent, HourMin) * HourMin

(***************************************************************************)
(* Attendance documents and the schema's pre-save hook.                    *)
(***************************************************************************)
NoDoc ==
  [id |-> 0, employee |-> "", date |-> Null, clockIn |-> Null, clockOut |-> Null,
   breakStart |-> Null, breakEnd |-> Null, totalHours |-> 0, overtimeHours |-> 0,
   status |-> ""]

\* new Attendance({...}): the schema defaults for what the caller does not give.
NewAttendance(id, emp, date, ci, co, st) ==
  [id |-> id, employee |-> emp, date |-> date, clockIn |-> ci, clockOut |-> co,
   breakStart |-> Null, breakEnd |-> Null, totalHours |-> 0, overtimeHours |-> 0,
   status |-> st]

\* The hours as the routes compute them, rounded to 0.01, in place of the
\* hook's.
HookTotalHoursRounded(ci, co, bs, be) ==
  Max(0, RoundedHours(co - ci))

\* The hours without the subtraction of the break.
HookTotalHoursNoBreak(ci, co, bs, be) == Max(0, (co - ci) * Cent)

\* Math.max(0, totalMs / (1000 * 60 * 60)) with the break pair subtracted.
HookTotalHours(ci, co, bs, be) ==
  LET worked == co - ci
      totalMs == IF bs # Null /\ be # Null THEN worked - (be - bs) ELSE worked
  IN  Max(0, totalMs * Cent)

\* Math.max(0, this.totalHours - 8)
HookOvertime(th) == Max(0, th - StandardHours * HourUnit)

\* The ladder with its first bound exclusive.
HookStatusAboveStandard(th, old) ==
  IF th > StandardHours * HourUnit THEN "Present"
  ELSE IF th >= HalfDayHours * HourUnit THEN "Half Day"
  ELSE IF th > 0 THEN "Late"
  ELSE old

\* The status ladder of the hook; no branch for totalHours = 0.
HookStatus(th, old) ==
  IF th >= StandardHours * HourUnit THEN "Present"
  ELSE IF th >= HalfDayHours * HourUnit THEN "Half Day"
  ELSE IF th > 0 THEN "Late"
  ELSE old

\* attendanceSchema.pre("save")
AttendancePreSave(doc) ==
  IF doc.clockIn # Null /\ doc.clockOut # Null
  THEN LET th == HookTotalHours(doc.clockIn, doc.clockOut, doc.breakStart, doc.breakEnd)
       IN  [doc EXCEPT !.totalHours = th,
                       !.overtimeHours = HookOvertime(th),
                       !.status = HookStatus(th, doc.status)]
  ELSE doc

\* doc.save() of a loaded document: $set of the paths that differ from what was
\* loaded, applied to the stored document with the same _id.
SaveLoaded(stored, snap, doc) ==
  [f \in DOMAIN stored |-> IF doc[f] # snap[f] THEN doc[f] ELSE stored[f]]

\* The documents found by { employee, date: { $gte: dayStart, $lt: dayStart + 24h } }.
FindByDay(emp, dayStart) ==
  {r \in attendance :
     r.employee = emp /\ r.date >= dayStart /\ r.date < dayStart + DayMin}

\* The unique index { employee: 1, date: 1 } refuses the insert (E11000).
DuplicateKey(doc) ==
  \E r \in attendance : r.employee = doc.employee /\ r.date = doc.date

Stored(id) == {r \in attendance : r.id = id}

(***************************************************************************)
(* Requests in flight and responses.                                       *)
(***************************************************************************)
AttRequest(op, actor, emp, date, snap) ==
  [op |-> op, actor |-> actor, emp |-> emp, date |-> date, snap |-> snap]

Idle == AttRequest("idle", "", "", Null, NoDoc)

FreeSlots(req) == {s \in Slots : req[s].op = "idle"}
InFlight(req) == Slots \ FreeSlots(req)
\* The slot a new request takes.
NextSlot(req) == CHOOSE s \in FreeSlots(req) : \A t \in FreeSlots(req) : s <= t

\* Inserts still to come from the requests in flight.
Creating(req) == {s \in Slots : req[s].op \in {"clockIn", "manual"}}

Reported(r) == [clockIn |-> r.clockIn, clockOut |-> r.clockOut, status |-> r.status]

\* res.status(code).json(...).  The variable holds the exchange the last step
\* completed (the request's route, actor and body; the response's code and the
\* record it reports), NoResponse when that step sent no response.
Respond(op, actor, code, rec, body) ==
  [op |-> op, actor |-> actor, code |-> code, rec |-> rec, body |-> body]

NoResponse == Respond("", "", "", Reported(NoDoc), NoBody)

AttInit ==
  /\ attendance = {}
  /\ attNextId = 1
  /\ attReq = [s \in Slots |-> Idle]
  /\ attResp = NoResponse

\* Whether a request may be taken up now.  With serial, requests are handled one
\* at a time, each to completion before anything else happens.
Admit(serial) ==
  serial => (InFlight(attReq) = {} /\ InFlight(leaveReq) = {} /\ InFlight(callReq) = {})

(***************************************************************************)
(* POST /api/attendance/clock-in                                           *)
(***************************************************************************)
\* Clock-in without the look-up of today's record.
ClockInFindUnchecked(e, serial) ==
  /\ Admit(serial)
  /\ FreeSlots(attReq) # {}
  /\ attNextId + Cardinality(Creating(attReq)) <= MaxAttIds
  /\ attReq' = [attReq EXCEPT ![NextSlot(attReq)] =
                  AttRequest("clockIn", e, e, Null, NoDoc)]
  /\ attResp' = NoResponse
  /\ UNCHANGED <<attendance, attNextId>>
  /\ UNCHANGED <<now, leaveVars, callVars>>

ClockInFind(e, serial) ==
  /\ Admit(serial)
  /\ LET found == FindByDay(e, DayStart(now))
     IN  IF found # {}
         THEN /\ \E r \in found :
                   attResp' = Respond("clockIn", e, "400_ALREADY_CLOCKED_IN",
                                      Reported(r), NoBody)
              /\ UNCHANGED <<attendance, attNextId, attReq>>
         ELSE /\ FreeSlots(attReq) # {}
              /\ attNextId + Cardinality(Creating(attReq)) <= MaxAttIds
              /\ attReq' = [attReq EXCEPT ![NextSlot(attReq)] =
                              AttRequest("clockIn", e, e, Null, NoDoc)]
              /\ attResp' = NoResponse
              /\ UNCHANGED <<attendance, attNextId>>
  /\ UNCHANGED <<now, leaveVars, callVars>>

ClockInSave(s) ==
  /\ attReq[s].op = "clockIn"
  /\ LET e == attReq[s].actor
         doc == AttendancePreSave(NewAttendance(attNextId, e, now, now, Null, "Present"))
     IN  IF DuplicateKey(doc)
         THEN /\ attResp' = Respond("clockIn", e, "400_DATABASE_VALIDATION_ERROR",
                                    Reported(NoDoc), NoBody)
              /\ UNCHANGED <<attendance, attNextId>>
         ELSE /\ attendance' = attendance \cup {doc}
              /\ attNextId' = attNextId + 1
              /\ attResp' = Respond("clockIn", e, "201", Reported(NoDoc), NoBody)
  /\ attReq' = [attReq EXCEPT ![s] = Idle]
  /\ UNCHANGED <<now, leaveVars, callVars>>

(***************************************************************************)
(* POST /api/attendance/clock-out                                          *)
(***************************************************************************)
ClockOutFind(e, serial) ==
  /\ Admit(serial)
  /\ LET found == FindByDay(e, DayStart(now))
     IN  IF found = {}
         THEN /\ attResp' = Respond("clockOut", e, "404_NO_CLOCK_IN",
                                    Reported(NoDoc), NoBody)
              /\ UNCHANGED attReq
         ELSE \E r \in found :
                IF r.clockOut # Null
                THEN /\ attResp' = Respond("clockOut", e,
                                           "400_ALREADY_CLOCKED_OUT", Reported(r), NoBody)
                     /\ UNCHANGED attReq
                ELSE /\ FreeSlots(attReq) # {}
                     /\ attReq' = [attReq EXCEPT ![NextSlot(attReq)] =
                                     AttRequest("clockOut", e, e, Null, r)]
                     /\ attResp' = NoResponse
  /\ UNCHANGED <<now, attendance, attNextId, leaveVars, callVars>>

\* What the continuation of clock-out makes of the loaded document.
ClockOutDoc(snap, t) ==
  AttendancePreSave([snap EXCEPT !.clockOut = t,
                                 !.totalHours = RoundedHours(DateDiff(t, snap.clockIn))])

ClockOutSave(s) ==
  /\ attReq[s].op = "clockOut"
  /\ LET e == attReq[s].actor
         snap == attReq[s].snap
         doc == ClockOutDoc(snap, now)
     IN  IF Stored(snap.id) = {}
         THEN \* save() rejects, the inner catch logs, the mock response is sent
              /\ attResp' = Respond("clockOut", e, "200_MOCK", Reported(NoDoc), NoBody)
              /\ UNCHANGED attendance
         ELSE /\ attendance' =
                   {IF r.id = snap.id THEN SaveLoaded(r, snap, doc) ELSE r : r \in attendance}
              /\ attResp' = Respond("clockOut", e, "200", Reported(NoDoc), NoBody)
  /\ attReq' = [attReq EXCEPT ![s] = Idle]
  /\ UNCHANGED <<now, attNextId, leaveVars, callVars>>

(***************************************************************************)
(* POST /api/attendance/manual (admin)                                     *)
(***************************************************************************)
ManualFind(a, emp, d, serial) ==
  /\ Admit(serial)
  /\ IF role(a) # "admin"
     THEN /\ attResp' = Respond("manual", a, "403", Reported(NoDoc), NoBody)
          /\ UNCHANGED attReq
     ELSE LET attendanceDate == DayStart(At(d, 0))
              found == FindByDay(emp, attendanceDate)
          IN  IF found # {}
              THEN /\ attResp' = Respond("manual", a, "400_EXISTS", Reported(NoDoc), NoBody)
                   /\ UNCHANGED attReq
              ELSE /\ FreeSlots(attReq) # {}
                   /\ attNextId + Cardinality(Creating(attReq)) <= MaxAttIds
                   /\ attReq' = [attReq EXCEPT ![NextSlot(attReq)] =
                                   AttRequest("manual", a, emp, attendanceDate, NoDoc)]
                   /\ attResp' = NoResponse
  /\ UNCHANGED <<now, attendance, attNextId, leaveVars, callVars>>

\* What the continuation of manual entry builds.
ManualDoc(id, emp, date, ci, co, st) ==
  LET fresh == NewAttendance(id, emp, date, ci, co, st)
  IN  AttendancePreSave(
        IF ci # Null /\ co # Null
        THEN [fresh EXCEPT !.totalHours = RoundedHours(co - ci)]
        ELSE fresh)

ManualSave(s, b) ==
  /\ attReq[s].op = "manual"
  /\ LET doc == ManualDoc(attNextId, attReq[s].emp, attReq[s].date,
                          b.clockIn, b.clockOut, b.status)
     IN  IF DuplicateKey(doc)
         THEN /\ attResp' = Respond("manual", attReq[s].actor, "500",
                                    Reported(NoDoc), NoBody)
              /\ UNCHANGED <<attendance, attNextId>>
         ELSE /\ attendance' = attendance \cup {doc}
              /\ attNextId' = attNextId + 1
              /\ attResp' = Respond("manual", attReq[s].actor, "201", Reported(NoDoc), b)
  /\ attReq' = [attReq EXCEPT ![s] = Idle]
  /\ UNCHANGED <<now, leaveVars, callVars>>

(***************************************************************************)
(* PUT /api/attendance/:id (admin)                                         *)
(***************************************************************************)
UpdateFind(a, id) ==
  /\ Admit(TRUE)
  /\ IF role(a) # "admin"
     THEN /\ attResp' = Respond("update", a, "403", Reported(NoDoc), NoBody)
          /\ UNCHANGED attReq
     ELSE IF Stored(id) = {}
          THEN /\ attResp' = Respond("update", a, "404", Reported(NoDoc), NoBody)
               /\ UNCHANGED attReq
          ELSE /\ FreeSlots(attReq) # {}
               /\ \E r \in Stored(id) :
                    attReq' = [attReq EXCEPT ![NextSlot(attReq)] =
                                 AttRequest("update", a, r.employee, Null, r)]
               /\ attResp' = NoResponse
  /\ UNCHANGED <<now, attendance, attNextId, leaveVars, callVars>>

\* What the continuation of the update makes of the loaded document; a field
\* the body leaves out (Null, "") keeps its loaded value.
UpdateDoc(snap, ci, co, st) ==
  LET set == [snap EXCEPT !.clockIn = IF ci # Null THEN ci ELSE @,
                          !.clockOut = IF co # Null THEN co ELSE @,
                          !.status = IF st # "" THEN st ELSE @]
  IN  AttendancePreSave(
        IF set.clockIn # Null /\ set.clockOut # Null
        THEN [set EXCEPT !.totalHours = RoundedHours(set.clockOut - set.clockIn)]
        ELSE set)

UpdateSave(s, b) ==
  /\ attReq[s].op = "update"
  /\ LET snap == attReq[s].snap
         doc == UpdateDoc(snap, b.clockIn, b.clockOut, b.status)
     IN  IF Stored(snap.id) = {}
         THEN /\ attResp' = Respond("update", attReq[s].actor, "500",
                                    Reported(NoDoc), NoBody)
              /\ UNCHANGED attendance
         ELSE /\ attendance' =
                   {IF r.id = snap.id THEN SaveLoaded(r, snap, doc) ELSE r : r \in attendance}
              /\ attResp' = Respond("update", attReq[s].actor, "200", Reported(NoDoc), b)
  /\ attReq' = [attReq EXCEPT ![s] = Idle]
  /\ UNCHANGED <<now, attNextId, leaveVars, callVars>>

(***************************************************************************)
(* DELETE /api/attendance/:id (admin)                                      *)
(***************************************************************************)
DeleteFind(a, id, serial) ==
  /\ Admit(serial)
  /\ IF role(a) # "admin"
     THEN /\ attResp' = Respond("delete", a, "403", Reported(NoDoc), NoBody)
          /\ UNCHANGED attReq
     ELSE IF Stored(id) = {}
          THEN /\ attResp' = Respond("delete", a, "404", Reported(NoDoc), NoBody)
               /\ UNCHANGED attReq
          ELSE /\ FreeSlots(attReq) # {}
               \* the continuation uses the loaded document's _id alone
               /\ attReq' = [attReq EXCEPT ![NextSlot(attReq)] =
                               AttRequest("delete", a, "", Null, [NoDoc EXCEPT !.id = id])]
               /\ attResp' = NoResponse
  /\ UNCHANGED <<now, attendance, attNextId, leaveVars, callVars>>

DeleteDo(s) ==
  /\ attReq[s].op = "delete"
  /\ attendance' = {r \in attendance : r.id # attReq[s].snap.id}
  /\ attResp' = Respond("delete", attReq[s].actor, "200", Reported(NoDoc), NoBody)
  /\ attReq' = [attReq EXCEPT ![s] = Idle]
  /\ UNCHANGED <<now, attNextId, leaveVars, callVars>>

(***************************************************************************)
(* DELETE /api/attendance/clear-today                                      *)
(***************************************************************************)
\* The handler registered for /clear-today, were the request to reach it:
\* deleteMany of the requester's records of today.
ClearTodayHandler(a, serial) ==
  /\ Admit(serial)
  /\ attendance' = attendance \ FindByDay(a, DayStart(now))
  /\ attResp' = Respond("clearToday", a, "200", Reported(NoDoc), NoBody)
  /\ UNCHANGED <<attNextId, attReq>>
  /\ UNCHANGED <<now, leaveVars, callVars>>

\* The router matches in registration order, and "/:id", registered first with
\* adminAuth, matches the path: a non-admin is answered 403; for an admin
\* findById of the id "clear-today" throws and the catch answers 500.
ClearToday(a, serial) ==
  /\ Admit(serial)
  /\ attResp' = Respond("clearToday", a, IF role(a) # "admin" THEN "403" ELSE "500",
                        Reported(NoDoc), NoBody)
  /\ UNCHANGED <<attendance, attNextId, attReq>>
  /\ UNCHANGED <<now, leaveVars, callVars>>

(***************************************************************************)
(* Leave documents and the schema's pre-save hooks.                        *)
(***************************************************************************)
NoLeave ==
  [id |-> 0, employee |-> "", startDate |-> Null, endDate |-> Null, totalDays |-> 0,
   status |-> "", approvedBy |-> "", approvedDate |-> Null, isHalfDay |-> FALSE]

\* new Leave({employee, type, startDate, endDate, totalDays, reason, halfDay}):
\* halfDay is no path of the schema and is dropped; isHalfDay and status take
\* their defaults.
NewLeave(id, emp, start, end, days) ==
  [id |-> id, employee |-> emp, startDate |-> start, endDate |-> end,
   totalDays |-> days, status |-> "Pending", approvedBy |-> "", approvedDate |-> Null,
   isHalfDay |-> FALSE]

\* Math.ceil(n / d), d > 0
MathCeil(n, d) == 0 - ((0 - n) \div d)

\* Math.ceil(timeDiff / (1000 * 3600 * 24)) + 1, in half days
InclusiveDays(start, end) ==
  (MathCeil(end - start, DayMin) + 1) * (HalfDayTotal + HalfDayTotal)

\* The route's own totalDays (create, update).
RouteTotalDays(start, end, half) ==
  IF half THEN HalfDayTotal ELSE InclusiveDays(start, end)

\* leaveSchema.pre("save"), first hook: totalDays from the document's dates
\* and its isHalfDay.
HookTotalDays(doc) ==
  IF doc.startDate # Null /\ doc.endDate # Null
  THEN IF doc.isHalfDay THEN HalfDayTotal ELSE InclusiveDays(doc.startDate, doc.endDate)
  ELSE doc.totalDays

\* second hook: the save is refused when the end date is before the start date
HookDatesOk(doc) == ~(doc.endDate < doc.startDate)

\* third hook: approvedDate when the status was changed to Approved
HookApprovedDate(doc, loadedStatus, t) ==
  IF doc.status # loadedStatus /\ doc.status = "Approved" THEN t ELSE doc.approvedDate

LeavePreSave(doc, loadedStatus, t) ==
  [doc EXCEPT !.totalDays = HookTotalDays(doc),
              !.approvedDate = HookApprovedDate(doc, loadedStatus, t)]

\* The query with strict comparisons: an interval that only touches is missed.
OverlappingLeavesStrict(emp, start, end) ==
  {l \in leaves :
     /\ l.employee = emp
     /\ l.status \in {"Pending", "Approved"}
     /\ l.startDate < end
     /\ l.endDate > start}

\* { employee, status: { $in: [Pending, Approved] },
\*   startDate: { $lte: end }, endDate: { $gte: start } }
OverlappingLeaves(emp, start, end) ==
  {l \in leaves :
     /\ l.employee = emp
     /\ l.status \in {"Pending", "Approved"}
     /\ l.startDate <= end
     /\ l.endDate >= start}

StoredLeave(id) == {l \in leaves : l.id = id}

\* A leave body: the dates (Null: left out), the half-day flag, and whether
\* type and reason are given ("missing": not), and valid ("invalid": a type
\* outside the enum or a reason over 500 characters).
LeaveBody(start, end, half, fields) ==
  [startDate |-> start, endDate |-> end, isHalfDay |-> half, fields |-> fields]
NoLeaveBody == LeaveBody(Null, Null, FALSE, "")

\* A past midnight, a coming midnight, and a later noon.
PastInstant == At(1, 0)
FirstInstant == At(MaxDay, 0)
LastInstant == At(MaxDay + 1, 720)
LeaveInstants == {PastInstant, FirstInstant, LastInstant}
\* The midnight of the last instant's calendar day.
LastMidnight == At(MaxDay + 1, 0)
CreateBodies ==
  {LeaveBody(s, e, FALSE, "ok") : s \in LeaveInstants, e \in LeaveInstants}
  \cup {LeaveBody(LastMidnight, LastInstant, FALSE, "ok")}
  \cup {LeaveBody(s, LastInstant, TRUE, "ok") : s \in {FirstInstant, LastInstant}}
  \cup {LeaveBody(LastInstant, LastInstant, FALSE, f) : f \in {"missing", "invalid"}}
UpdateLeaveBodies ==
  {LeaveBody(FirstInstant, LastInstant, FALSE, "ok"),
   LeaveBody(LastInstant, LastInstant, FALSE, "ok"),
   LeaveBody(LastInstant, FirstInstant, FALSE, "ok"),
   LeaveBody(LastInstant, LastInstant, TRUE, "ok"),
   LeaveBody(Null, Null, FALSE, "ok"),
   LeaveBody(LastInstant, LastInstant, FALSE, "invalid")}

LeaveRequest(op, actor, body, snap) ==
  [op |-> op, actor |-> actor, body |-> body, snap |-> snap]
LeaveIdle == LeaveRequest("idle", "", NoLeaveBody, NoLeave)

\* The exchange the last step completed: route, actor, body and target of the
\* request, code of the response.
LeaveRespond(op, actor, code, id, body) ==
  [op |-> op, actor |-> actor, code |-> code, id |-> id, body |-> body]
NoLeaveResponse == LeaveRespond("", "", "", 0, NoLeaveBody)

LeaveInit ==
  /\ leaves = {}
  /\ leaveNextId = 1
  /\ leaveReq = [s \in Slots |-> LeaveIdle]
  /\ leaveResp = NoLeaveResponse

LeaveIds == 1..MaxLeaveIds

(***************************************************************************)
(* POST /api/leaves                                                        *)
(***************************************************************************)
\* Create without the comparison of the start date with the clock.
CreateLeaveFindNoPast(e, b, serial) ==
  /\ Admit(serial)
  /\ IF b.fields = "missing"
     THEN /\ leaveResp' = LeaveRespond("create", e, "400_REQUIRED", 0, b)
          /\ UNCHANGED leaveReq
     ELSE IF b.startDate > b.endDate
     THEN /\ leaveResp' = LeaveRespond("create", e, "400_RANGE", 0, b)
          /\ UNCHANGED leaveReq
     ELSE IF OverlappingLeaves(e, b.startDate, b.endDate) # {}
     THEN /\ leaveResp' = LeaveRespond("create", e, "400_OVERLAP", 0, b)
          /\ UNCHANGED leaveReq
     ELSE /\ FreeSlots(leaveReq) # {}
          /\ leaveNextId + Cardinality({s \in Slots : leaveReq[s].op = "create"})
               <= MaxLeaveIds
          /\ leaveReq' = [leaveReq EXCEPT ![NextSlot(leaveReq)] =
                            LeaveRequest("create", e, b, NoLeave)]
          /\ leaveResp' = NoLeaveResponse
  /\ UNCHANGED <<now, leaves, leaveNextId, attVars, callVars>>

CreateLeaveFind(e, b, serial) ==
  /\ Admit(serial)
  /\ IF b.fields = "missing"
     THEN /\ leaveResp' = LeaveRespond("create", e, "400_REQUIRED", 0, b)
          /\ UNCHANGED leaveReq
     ELSE IF b.startDate > b.endDate
     THEN /\ leaveResp' = LeaveRespond("create", e, "400_RANGE", 0, b)
          /\ UNCHANGED leaveReq
     ELSE IF b.startDate < now
     THEN /\ leaveResp' = LeaveRespond("create", e, "400_PAST", 0, b)
          /\ UNCHANGED leaveReq
     ELSE IF OverlappingLeaves(e, b.startDate, b.endDate) # {}
     THEN /\ leaveResp' = LeaveRespond("create", e, "400_OVERLAP", 0, b)
          /\ UNCHANGED leaveReq
     ELSE /\ FreeSlots(leaveReq) # {}
          /\ leaveNextId + Cardinality({s \in Slots : leaveReq[s].op = "create"})
               <= MaxLeaveIds
          /\ leaveReq' = [leaveReq EXCEPT ![NextSlot(leaveReq)] =
                            LeaveRequest("create", e, b, NoLeave)]
          /\ leaveResp' = NoLeaveResponse
  /\ UNCHANGED <<now, leaves, leaveNextId, attVars, callVars>>

\* What the continuation of create builds and the hooks make of it.
CreateLeaveDoc(id, e, b, t) ==
  LeavePreSave(
    NewLeave(id, e, b.startDate, b.endDate,
             RouteTotalDays(b.startDate, b.endDate, b.isHalfDay)),
    "Pending", t)

CreateLeaveSave(s) ==
  /\ leaveReq[s].op = "create"
  /\ LET e == leaveReq[s].actor
         b == leaveReq[s].body
         doc == CreateLeaveDoc(leaveNextId, e, b, now)
     IN  IF b.fields = "invalid" \/ ~HookDatesOk(doc)
         THEN \* save() rejects, the inner catch logs, the mock response is sent
              /\ leaveResp' = LeaveRespond("create", e, "201_MOCK", 0, b)
              /\ UNCHANGED <<leaves, leaveNextId>>
         ELSE /\ leaves' = leaves \cup {doc}
              /\ leaveNextId' = leaveNextId + 1
              /\ leaveResp' = LeaveRespond("create", e, "201", doc.id, b)
  /\ leaveReq' = [leaveReq EXCEPT ![s] = LeaveIdle]
  /\ UNCHANGED <<now, attVars, callVars>>

(***************************************************************************)
(* PUT /api/leaves/:id/approve and /reject (admin)                         *)
(***************************************************************************)
\* Approve and reject without adminAuth.
DecideFindNoAuth(op, a, id, serial) ==
  /\ Admit(serial)
  /\ IF StoredLeave(id) = {}
     THEN /\ leaveResp' = LeaveRespond(op, a, "404", id, NoLeaveBody)
          /\ UNCHANGED leaveReq
     ELSE \E l \in StoredLeave(id) :
            IF l.status # "Pending"
            THEN /\ leaveResp' = LeaveRespond(op, a, "400_NOT_PENDING", id, NoLeaveBody)
                 /\ UNCHANGED leaveReq
            ELSE /\ FreeSlots(leaveReq) # {}
                 /\ leaveReq' = [leaveReq EXCEPT ![NextSlot(leaveReq)] =
                                   LeaveRequest(op, a, NoLeaveBody, l)]
                 /\ leaveResp' = NoLeaveResponse
  /\ UNCHANGED <<now, leaves, leaveNextId, attVars, callVars>>

\* Approve and reject without the check of the leave's status.
DecideFindAnyStatus(op, a, id, serial) ==
  /\ Admit(serial)
  /\ IF role(a) # "admin"
     THEN /\ leaveResp' = LeaveRespond(op, a, "403", id, NoLeaveBody)
          /\ UNCHANGED leaveReq
     ELSE IF StoredLeave(id) = {}
     THEN /\ leaveResp' = LeaveRespond(op, a, "404", id, NoLeaveBody)
          /\ UNCHANGED leaveReq
     ELSE \E l \in StoredLeave(id) :
            /\ FreeSlots(leaveReq) # {}
            /\ leaveReq' = [leaveReq EXCEPT ![NextSlot(leaveReq)] =
                              LeaveRequest(op, a, NoLeaveBody, l)]
            /\ leaveResp' = NoLeaveResponse
  /\ UNCHANGED <<now, leaves, leaveNextId, attVars, callVars>>

DecideFind(op, a, id, serial) ==
  /\ Admit(serial)
  /\ IF role(a) # "admin"
     THEN /\ leaveResp' = LeaveRespond(op, a, "403", id, NoLeaveBody)
          /\ UNCHANGED leaveReq
     ELSE IF StoredLeave(id) = {}
     THEN /\ leaveResp' = LeaveRespond(op, a, "404", id, NoLeaveBody)
          /\ UNCHANGED leaveReq
     ELSE \E l \in StoredLeave(id) :
            IF l.status # "Pending"
            THEN /\ leaveResp' = LeaveRespond(op, a, "400_NOT_PENDING", id, NoLeaveBody)
                 /\ UNCHANGED leaveReq
            ELSE /\ FreeSlots(leaveReq) # {}
                 /\ leaveReq' = [leaveReq EXCEPT ![NextSlot(leaveReq)] =
                                   LeaveRequest(op, a, NoLeaveBody, l)]
                 /\ leaveResp' = NoLeaveResponse
  /\ UNCHANGED <<now, leaves, leaveNextId, attVars, callVars>>

ApproveFind(a, id, serial) == DecideFind("approve", a, id, serial)
RejectFind(a, id, serial) == DecideFind("reject", a, id, serial)

\* approve: status and approvedBy are paths of the schema, approvedAt and
\* comments are not.
ApproveDoc(snap, a, t) ==
  LeavePreSave([snap EXCEPT !.status = "Approved", !.approvedBy = a], snap.status, t)

\* reject: status is a path of the schema; rejectedBy, rejectedAt and comments
\* are not.
RejectDoc(snap, a, t) ==
  LeavePreSave([snap EXCEPT !.status = "Rejected"], snap.status, t)

DecideSave(s, op, doc) ==
  /\ leaveReq[s].op = op
  /\ LET snap == leaveReq[s].snap
         a == leaveReq[s].actor
     IN  IF StoredLeave(snap.id) = {} \/ ~HookDatesOk(doc)
         THEN \* save() rejects, the inner catch logs, the mock response is sent
              /\ leaveResp' = LeaveRespond(op, a, "200_MOCK", snap.id, NoLeaveBody)
              /\ UNCHANGED leaves
         ELSE /\ leaves' =
                   {IF l.id = snap.id THEN SaveLoaded(l, snap, doc) ELSE l : l \in leaves}
              /\ leaveResp' = LeaveRespond(op, a, "200", snap.id, NoLeaveBody)
  /\ leaveReq' = [leaveReq EXCEPT ![s] = LeaveIdle]
  /\ UNCHANGED <<now, leaveNextId, attVars, callVars>>

ApproveSave(s) ==
  DecideSave(s, "approve", ApproveDoc(leaveReq[s].snap, leaveReq[s].actor, now))
RejectSave(s) ==
  DecideSave(s, "reject", RejectDoc(leaveReq[s].snap, leaveReq[s].actor, now))

(***************************************************************************)
(* PUT /api/leaves/:id and DELETE /api/leaves/:id                          *)
(***************************************************************************)
\* The checks of update and delete without the one of the leave's status.
OwnerFindAnyStatus(op, a, id, serial) ==
  /\ Admit(serial)
  /\ IF StoredLeave(id) = {}
     THEN /\ leaveResp' = LeaveRespond(op, a, "404", id, NoLeaveBody)
          /\ UNCHANGED leaveReq
     ELSE \E l \in StoredLeave(id) :
            IF l.employee # a /\ role(a) # "admin"
            THEN /\ leaveResp' = LeaveRespond(op, a, "403", id, NoLeaveBody)
                 /\ UNCHANGED leaveReq
            ELSE /\ FreeSlots(leaveReq) # {}
                 /\ leaveReq' = [leaveReq EXCEPT ![NextSlot(leaveReq)] =
                                   LeaveRequest(op, a, NoLeaveBody, l)]
                 /\ leaveResp' = NoLeaveResponse
  /\ UNCHANGED <<now, leaves, leaveNextId, attVars, callVars>>

\* The checks both routes make on the loaded leave.
OwnerFind(op, a, id, serial) ==
  /\ Admit(serial)
  /\ IF StoredLeave(id) = {}
     THEN /\ leaveResp' = LeaveRespond(op, a, "404", id, NoLeaveBody)
          /\ UNCHANGED leaveReq
     ELSE \E l \in StoredLeave(id) :
            IF l.employee # a /\ role(a) # "admin"
            THEN /\ leaveResp' = LeaveRespond(op, a, "403", id, NoLeaveBody)
                 /\ UNCHANGED leaveReq
            ELSE IF l.status # "Pending" /\ role(a) # "admin"
            THEN /\ leaveResp' = LeaveRespond(op, a, "400_NOT_PENDING", id, NoLeaveBody)
                 /\ UNCHANGED leaveReq
            ELSE /\ FreeSlots(leaveReq) # {}
                 /\ leaveReq' = [leaveReq EXCEPT ![NextSlot(leaveReq)] =
                                   LeaveRequest(op, a, NoLeaveBody, l)]
                 /\ leaveResp' = NoLeaveResponse
  /\ UNCHANGED <<now, leaves, leaveNextId, attVars, callVars>>

UpdateLeaveFind(a, id, serial) == OwnerFind("update", a, id, serial)
DeleteLeaveFind(a, id, serial) == OwnerFind("delete", a, id, serial)

\* What the continuation of the update makes of the loaded leave: the dates
\* when both are given, with the route's totalDays; halfDay is no path of the
\* schema.
UpdateLeaveDoc(snap, b, t) ==
  LeavePreSave(
    IF b.startDate # Null /\ b.endDate # Null
    THEN [snap EXCEPT !.startDate = b.startDate, !.endDate = b.endDate,
                      !.totalDays = RouteTotalDays(b.startDate, b.endDate, b.isHalfDay)]
    ELSE snap,
    snap.status, t)

\* The update without the route's comparison of the two dates.
UpdateLeaveSaveNoRange(s, b) ==
  /\ leaveReq[s].op = "update"
  /\ LET snap == leaveReq[s].snap
         a == leaveReq[s].actor
         doc == UpdateLeaveDoc(snap, b, now)
     IN  IF b.fields = "invalid" \/ ~HookDatesOk(doc) \/ StoredLeave(snap.id) = {}
         THEN /\ leaveResp' = LeaveRespond("update", a, "500", snap.id, b)
              /\ UNCHANGED leaves
         ELSE /\ leaves' =
                   {IF l.id = snap.id THEN SaveLoaded(l, snap, doc) ELSE l : l \in leaves}
              /\ leaveResp' = LeaveRespond("update", a, "200", snap.id, b)
  /\ leaveReq' = [leaveReq EXCEPT ![s] = LeaveIdle]
  /\ UNCHANGED <<now, leaveNextId, attVars, callVars>>

UpdateLeaveSave(s, b) ==
  /\ leaveReq[s].op = "update"
  /\ LET snap == leaveReq[s].snap
         a == leaveReq[s].actor
         doc == UpdateLeaveDoc(snap, b, now)
     IN  IF b.startDate # Null /\ b.endDate # Null /\ b.startDate > b.endDate
         THEN /\ leaveResp' = LeaveRespond("update", a, "400_RANGE", snap.id, b)
              /\ UNCHANGED leaves
         ELSE IF b.fields = "invalid" \/ ~HookDatesOk(doc) \/ StoredLeave(snap.id) = {}
         THEN /\ leaveResp' = LeaveRespond("update", a, "500", snap.id, b)
              /\ UNCHANGED leaves
         ELSE /\ leaves' =
                   {IF l.id = snap.id THEN SaveLoaded(l, snap, doc) ELSE l : l \in leaves}
              /\ leaveResp' = LeaveRespond("update", a, "200", snap.id, b)
  /\ leaveReq' = [leaveReq EXCEPT ![s] = LeaveIdle]
  /\ UNCHANGED <<now, leaveNextId, attVars, callVars>>

DeleteLeaveDo(s) ==
  /\ leaveReq[s].op = "delete"
  /\ leaves' = {l \in leaves : l.id # leaveReq[s].snap.id}
  /\ leaveResp' = LeaveRespond("delete", leaveReq[s].actor, "200", leaveReq[s].snap.id,
                               NoLeaveBody)
  /\ leaveReq' = [leaveReq EXCEPT ![s] = LeaveIdle]
  /\ UNCHANGED <<now, leaveNextId, attVars, callVars>>

(***************************************************************************)
(* Call-data documents and the schema's pre-save hook.  The score is kept  *)
(* in tenths of a point, so that the weights 40, 30, 0.2 and 0.1 are whole *)
(* numbers.  notes, addedAt, updatedAt, updatedBy and isCheckedOut play no *)
(* part in any branch of the routes and are left out.                      *)
(***************************************************************************)
NoCall ==
  [id |-> 0, employee |-> "", date |-> Null, totalCalls |-> 0, totalCallTime |-> 0,
   interestedStudents |-> 0, visitedToday |-> 0, performanceScore |-> 0]

\* req.body of the call-data routes; Null stands for an undefined field.  The
\* routes never destructure performanceScore.
CallBody(c, t, i, v, p) ==
  [totalCalls |-> c, totalCallTime |-> t, interestedStudents |-> i,
   visitedToday |-> v, performanceScore |-> p]

NoCallBody == CallBody(Null, Null, Null, Null, Null)

\* new CallData({ employee, date, totalCalls, ... }): performanceScore takes the
\* schema default.
NewCallData(id, emp, date, b) ==
  [id |-> id, employee |-> emp, date |-> date, totalCalls |-> b.totalCalls,
   totalCallTime |-> b.totalCallTime, interestedStudents |-> b.interestedStudents,
   visitedToday |-> b.visitedToday, performanceScore |-> 0]

\* visitedToday * 40 + interestedStudents * 30 + totalCallTime * 0.2 +
\* totalCalls * 0.1, in tenths.
CallScore(doc) ==
  doc.visitedToday * VisitedWeight + doc.interestedStudents * InterestedWeight
    + doc.totalCallTime * CallTimeWeight + doc.totalCalls * CallsWeight

\* callDataSchema.pre("save")
CallPreSave(doc) == [doc EXCEPT !.performanceScore = CallScore(doc)]

\* The schema without its validators.
CallValidAlways(doc) == TRUE

\* The schema's min: 0 validators, run by save() before the hook.
CallValid(doc) ==
  /\ doc.totalCalls >= 0
  /\ doc.totalCallTime >= 0
  /\ doc.interestedStudents >= 0
  /\ doc.visitedToday >= 0
  /\ doc.performanceScore >= 0

\* The documents found by { employee, date: { $gte: recordDate, $lt: recordDate + 24h } }.
CallFindByDay(emp, recordDate) ==
  {c \in calls :
     c.employee = emp /\ c.date >= recordDate /\ c.date < recordDate + DayMin}

\* The collection without its unique index: no insert is refused.
CallNoIndex(doc) == FALSE

\* The unique index { employee: 1, date: 1 } refuses the insert (E11000).
CallDuplicateKey(doc) ==
  \E c \in calls : c.employee = doc.employee /\ c.date = doc.date

CallStored(id) == {c \in calls : c.id = id}

\* The bodies of a POST that passes the required-fields test, and one with a
\* negative counter.
PostBodies ==
  {CallBody(1, 1, 0, 0, 999), CallBody(0, 0, 1, 1, 999), CallBody(1, 1, 1, 1, Null),
   CallBody(0 - 2, 0, 0, 0, Null)}

\* The bodies of a PUT: any subset of the counters.
PutBodies ==
  {CallBody(2, Null, Null, Null, 999), CallBody(Null, Null, Null, 2, Null),
   CallBody(Null, 0 - 2, Null, Null, Null)}

\* The bodies sent by requests that interleave.
RacePostBodies == {CallBody(1, 1, 1, 1, 999)}
RacePutBodies ==
  {CallBody(2, Null, Null, Null, 999), CallBody(Null, Null, Null, 2, Null)}

\* The body of the PUTs made around a clock-out.
DayPutBodies == {CallBody(2, Null, Null, Null, 999)}

CallRequest(op, actor, emp, date, snap) ==
  [op |-> op, actor |-> actor, emp |-> emp, date |-> date, snap |-> snap]

CallIdle == CallRequest("idle", "", "", Null, NoCall)

\* Inserts still to come from the requests in flight.
CallCreating == {s \in Slots : callReq[s].op = "post" /\ callReq[s].snap = NoCall}

CallRespond(op, actor, code, id, body) ==
  [op |-> op, actor |-> actor, code |-> code, id |-> id, body |-> body]

NoCallResponse == CallRespond("", "", "", 0, NoCallBody)

CallInit ==
  /\ calls = {}
  /\ callNextId = 1
  /\ callReq = [s \in Slots |-> CallIdle]
  /\ callResp = NoCallResponse

CallIds == 1..MaxCallIds

\* The checked-out test made for every requester, admins included.
CheckedOutAnyRole(a, recordDate) ==
  IF recordDate # DayStart(now)
  THEN {FALSE}
  ELSE LET found == FindByDay(a, DayStart(now))
       IN  IF found = {} THEN {FALSE} ELSE {r.clockOut # Null : r \in found}

\* The routes without their checked-out test.
CheckedOutSkipped(a, recordDate) == {FALSE}

\* The checked-out test of the three routes: skipped for admins and for a record
\* date other than today; otherwise Attendance.findOne for the requester's
\* today, and whether the record it returns has a clockOut.  With several
\* records for the day findOne may return any of them.
CheckedOut(a, recordDate) ==
  IF role(a) = "admin" \/ recordDate # DayStart(now)
  THEN {FALSE}
  ELSE LET found == FindByDay(a, DayStart(now))
       IN  IF found = {} THEN {FALSE} ELSE {r.clockOut # Null : r \in found}

(***************************************************************************)
(* POST /api/calls.  complete tells whether the body carries the four      *)
(* counters, emp is the employee it names ("" for none), date the date it  *)
(* gives (Null for none).  The two look-ups are taken as one step: the     *)
(* first reads attendance only and the second call data only.              *)
(***************************************************************************)
CallPostFind(a, emp, date, complete, serial) ==
  /\ Admit(serial)
  /\ LET employeeId == IF emp # "" THEN emp ELSE a
         recordDate == DayStart(IF date # Null THEN date ELSE now)
         found == CallFindByDay(employeeId, recordDate)
     IN  IF ~complete
         THEN /\ callResp' = CallRespond("post", a, "400_REQUIRED", 0, NoCallBody)
              /\ UNCHANGED callReq
         ELSE IF emp # "" /\ role(a) # "admin"
         THEN /\ callResp' = CallRespond("post", a, "403", 0, NoCallBody)
              /\ UNCHANGED callReq
         ELSE \E out \in CheckedOut(a, recordDate) :
                IF out
                THEN /\ callResp' = CallRespond("post", a, "400_CHECKED_OUT", 0,
                                                NoCallBody)
                     /\ UNCHANGED callReq
                ELSE /\ FreeSlots(callReq) # {}
                     /\ IF found = {}
                        THEN /\ callNextId + Cardinality(CallCreating) <= MaxCallIds
                             /\ callReq' = [callReq EXCEPT ![NextSlot(callReq)] =
                                  CallRequest("post", a, employeeId, recordDate, NoCall)]
                        ELSE \E c \in found :
                               callReq' = [callReq EXCEPT ![NextSlot(callReq)] =
                                  CallRequest("post", a, employeeId, recordDate, c)]
                     /\ callResp' = NoCallResponse
  /\ UNCHANGED <<calls, callNextId>>
  /\ UNCHANGED <<now, attVars, leaveVars>>

\* The document the route hands to save(): the found record with the four
\* counters assigned, or a new one.
CallPostDoc(snap, emp, date, b, id) ==
  IF snap = NoCall
  THEN NewCallData(id, emp, date, b)
  ELSE [snap EXCEPT !.totalCalls = b.totalCalls,
                    !.totalCallTime = b.totalCallTime,
                    !.interestedStudents = b.interestedStudents,
                    !.visitedToday = b.visitedToday]

CallPostSave(s, b) ==
  /\ callReq[s].op = "post"
  /\ LET snap == callReq[s].snap
         a == callReq[s].actor
         set == CallPostDoc(snap, callReq[s].emp, callReq[s].date, b, callNextId)
         doc == CallPreSave(set)
     IN  IF ~CallValid(set)
         THEN /\ callResp' = CallRespond("post", a, "500", snap.id, b)
              /\ UNCHANGED <<calls, callNextId>>
         ELSE IF snap = NoCall
         THEN IF CallDuplicateKey(doc)
              THEN /\ callResp' = CallRespond("post", a, "400_EXISTS", 0, b)
                   /\ UNCHANGED <<calls, callNextId>>
              ELSE /\ calls' = calls \cup {doc}
                   /\ callNextId' = callNextId + 1
                   /\ callResp' = CallRespond("post", a, "201", doc.id, b)
         ELSE IF CallStored(snap.id) = {}
         THEN /\ callResp' = CallRespond("post", a, "500", snap.id, b)
              /\ UNCHANGED <<calls, callNextId>>
         ELSE /\ calls' =
                   {IF c.id = snap.id THEN SaveLoaded(c, snap, doc) ELSE c : c \in calls}
              /\ callResp' = CallRespond("post", a, "201", snap.id, b)
              /\ UNCHANGED callNextId
  /\ callReq' = [callReq EXCEPT ![s] = CallIdle]
  /\ UNCHANGED <<now, attVars, leaveVars>>

(***************************************************************************)
(* PUT /api/calls/:id and DELETE /api/calls/:id                            *)
(***************************************************************************)
\* The look-up of PUT and DELETE without the ownership test.
CallOwnerFindAnyone(op, a, id, serial) ==
  /\ Admit(serial)
  /\ IF CallStored(id) = {}
     THEN /\ callResp' = CallRespond(op, a, "404", id, NoCallBody)
          /\ UNCHANGED callReq
     ELSE \E c \in CallStored(id) :
            \E out \in CheckedOut(a, DayStart(c.date)) :
              IF out
              THEN /\ callResp' = CallRespond(op, a, "400_CHECKED_OUT", id, NoCallBody)
                   /\ UNCHANGED callReq
              ELSE /\ FreeSlots(callReq) # {}
                   /\ callReq' = [callReq EXCEPT ![NextSlot(callReq)] =
                                    CallRequest(op, a, c.employee, c.date, c)]
                   /\ callResp' = NoCallResponse
  /\ UNCHANGED <<calls, callNextId>>
  /\ UNCHANGED <<now, attVars, leaveVars>>

\* findById, the ownership test and the checked-out test, shared by both routes.
CallOwnerFind(op, a, id, serial) ==
  /\ Admit(serial)
  /\ IF CallStored(id) = {}
     THEN /\ callResp' = CallRespond(op, a, "404", id, NoCallBody)
          /\ UNCHANGED callReq
     ELSE \E c \in CallStored(id) :
            IF c.employee # a /\ role(a) # "admin"
            THEN /\ callResp' = CallRespond(op, a, "403", id, NoCallBody)
                 /\ UNCHANGED callReq
            ELSE \E out \in CheckedOut(a, DayStart(c.date)) :
                   IF out
                   THEN /\ callResp' = CallRespond(op, a, "400_CHECKED_OUT", id,
                                                   NoCallBody)
                        /\ UNCHANGED callReq
                   ELSE /\ FreeSlots(callReq) # {}
                        /\ callReq' = [callReq EXCEPT ![NextSlot(callReq)] =
                                         CallRequest(op, a, c.employee, c.date, c)]
                        /\ callResp' = NoCallResponse
  /\ UNCHANGED <<calls, callNextId>>
  /\ UNCHANGED <<now, attVars, leaveVars>>

CallPutFind(a, id, serial) == CallOwnerFind("put", a, id, serial)
CallDeleteFind(a, id, serial) == CallOwnerFind("delete", a, id, serial)

\* if (x !== undefined) callData.x = x, for each of the four counters.
CallPutDoc(snap, b) ==
  [snap EXCEPT
     !.totalCalls = IF b.totalCalls # Null THEN b.totalCalls ELSE @,
     !.totalCallTime = IF b.totalCallTime # Null THEN b.totalCallTime ELSE @,
     !.interestedStudents =
        IF b.interestedStudents # Null THEN b.interestedStudents ELSE @,
     !.visitedToday = IF b.visitedToday # Null THEN b.visitedToday ELSE @]

CallPutSave(s, b) ==
  /\ callReq[s].op = "put"
  /\ LET snap == callReq[s].snap
         a == callReq[s].actor
         set == CallPutDoc(snap, b)
         doc == CallPreSave(set)
     IN  IF ~CallValid(set) \/ CallStored(snap.id) = {}
         THEN /\ callResp' = CallRespond("put", a, "500", snap.id, b)
              /\ UNCHANGED calls
         ELSE /\ calls' =
                   {IF c.id = snap.id THEN SaveLoaded(c, snap, doc) ELSE c : c \in calls}
              /\ callResp' = CallRespond("put", a, "200", snap.id, b)
  /\ callReq' = [callReq EXCEPT ![s] = CallIdle]
  /\ UNCHANGED <<now, callNextId, attVars, leaveVars>>

CallDeleteDo(s) ==
  /\ callReq[s].op = "delete"
  /\ calls' = {c \in calls : c.id # callReq[s].snap.id}
  /\ callResp' = CallRespond("delete", callReq[s].actor, "200", callReq[s].snap.id,
                             NoCallBody)
  /\ callReq' = [callReq EXCEPT ![s] = CallIdle]
  /\ UNCHANGED <<now, callNextId, attVars, leaveVars>>

(***************************************************************************)
(* The clock.                                                              *)
(***************************************************************************)
Tick(serial) ==
  /\ Admit(serial)
  /\ \E t \in Instants :
       /\ t > now
       /\ \A u \in Instants : u > now => t <= u
       /\ now' = t
  /\ attResp' = NoResponse
  /\ leaveResp' = NoLeaveResponse
  /\ callResp' = NoCallResponse
  /\ UNCHANGED <<attendance, attNextId, attReq, leaves, leaveNextId, leaveReq>>
  /\ UNCHANGED <<calls, callNextId, callReq>>

AttIds == 1..MaxAttIds

AttRequests(serial) ==
  \/ \E e \in Staff : ClockInFind(e, serial)
  \/ \E s \in Slots : ClockInSave(s)
  \/ \E e \in Staff : ClockOutFind(e, serial)
  \/ \E s \in Slots : ClockOutSave(s)
  \/ \E a \in Actors, emp \in Staff, d \in Days : ManualFind(a, emp, d, serial)
  \/ \E s \in Slots : \E b \in ManualBodies(attReq[s].date) : ManualSave(s, b)
  \/ \E a \in Actors, id \in AttIds : DeleteFind(a, id, serial)
  \/ \E s \in Slots : DeleteDo(s)
  \/ Tick(serial)

\* The admin's update is taken up between other requests only.
AttUpdate ==
  \/ \E a \in Actors, id \in AttIds : UpdateFind(a, id)
  \/ \E s \in Slots :
       \E b \in UpdateBodies(DayStart(attReq[s].snap.date)) : UpdateSave(s, b)

AttNext == AttRequests(FALSE)
AttSeqNext == AttRequests(TRUE) \/ AttUpdate

LeaveRequests(serial) ==
  \/ \E e \in Employees, b \in CreateBodies : CreateLeaveFind(e, b, serial)
  \/ \E s \in Slots : CreateLeaveSave(s)
  \/ \E a \in Actors, id \in LeaveIds : ApproveFind(a, id, serial)
  \/ \E s \in Slots : ApproveSave(s)
  \/ \E a \in Actors, id \in LeaveIds : RejectFind(a, id, serial)
  \/ \E s \in Slots : RejectSave(s)
  \/ \E a \in Actors, id \in LeaveIds : UpdateLeaveFind(a, id, serial)
  \/ \E s \in Slots : \E b \in UpdateLeaveBodies : UpdateLeaveSave(s, b)
  \/ \E a \in Actors, id \in LeaveIds : DeleteLeaveFind(a, id, serial)
  \/ \E s \in Slots : DeleteLeaveDo(s)
  \/ Tick(serial)

LeaveNext == LeaveRequests(FALSE)
LeaveSeqNext == LeaveRequests(TRUE)

\* The call-data requests of the given actors, with the dates and bodies they
\* send.  An employee posts for themselves or names another; an admin names the
\* employee.
CallRequests(serial, actors, dates, posts, puts) ==
  \/ \E a \in actors, emp \in {""} \cup Employees, d \in dates, complete \in BOOLEAN :
        /\ emp # "" \/ a \in Staff
        /\ CallPostFind(a, emp, d, complete, serial)
  \/ \E s \in Slots, b \in posts : CallPostSave(s, b)
  \/ \E a \in actors, id \in CallIds : CallPutFind(a, id, serial)
  \/ \E s \in Slots, b \in puts : CallPutSave(s, b)
  \/ \E a \in actors, id \in CallIds : CallDeleteFind(a, id, TRUE)
  \/ \E s \in Slots : CallDeleteDo(s)
  \/ Tick(serial)

\* One employee's POSTs and PUTs for today, interleaved; a delete is taken up
\* between other requests only.
CallNext == CallRequests(FALSE, Staff, {Null}, RacePostBodies, RacePutBodies)
CallSeqNext == CallRequests(TRUE, Actors, {Null, At(1, 0)}, PostBodies, PutBodies)

\* Every attendance request an employee can send with their own token, handled
\* one at a time.
OwnSeqNext ==
  \/ \E e \in Staff : ClockInFind(e, TRUE)
  \/ \E s \in Slots : ClockInSave(s)
  \/ \E e \in Staff : ClockOutFind(e, TRUE)
  \/ \E s \in Slots : ClockOutSave(s)
  \/ \E e \in Staff, emp \in Staff, d \in Days : ManualFind(e, emp, d, TRUE)
  \/ \E e \in Staff, id \in AttIds : UpdateFind(e, id)
  \/ \E e \in Staff, id \in AttIds : DeleteFind(e, id, TRUE)
  \/ \E e \in Staff : ClearToday(e, TRUE)
  \/ Tick(TRUE)

\* The admin's approve and reject requests interleave between their read and
\* their write; the employee's create is taken up between other requests only.
LeaveRaceNext ==
  \/ \E e \in Staff :
       CreateLeaveFind(e, LeaveBody(FirstInstant, LastInstant, FALSE, "ok"), TRUE)
  \/ \E s \in Slots : CreateLeaveSave(s)
  \/ \E a \in Admins, id \in LeaveIds : ApproveFind(a, id, FALSE)
  \/ \E s \in Slots : ApproveSave(s)
  \/ \E a \in Admins, id \in LeaveIds : RejectFind(a, id, FALSE)
  \/ \E s \in Slots : RejectSave(s)
  \/ Tick(FALSE)

Init ==
  /\ now = At(1, 540)
  /\ AttInit
  /\ LeaveInit
  /\ CallInit

\* Clock-in, clock-out, manual entry and delete interleave between their read
\* and their write.
AttSpec == Init /\ [][AttNext]_vars
\* Every attendance request, handled one at a time.
AttSeqSpec == Init /\ [][AttSeqNext]_vars

\* Leave requests interleave between their read and their write.
LeaveSpec == Init /\ [][LeaveNext]_vars
\* Leave requests, handled one at a time.
LeaveSeqSpec == Init /\ [][LeaveSeqNext]_vars
\* An employee's own attendance requests, handled one at a time.
OwnSeqSpec == Init /\ [][OwnSeqNext]_vars
\* Approve and reject requests that interleave.
LeaveRaceSpec == Init /\ [][LeaveRaceNext]_vars

\* The employee's clock-in and clock-out together with their call-data
\* requests, for today and for the first day, handled one at a time.
CallDaySeqNext ==
  \/ \E e \in Staff : ClockInFind(e, TRUE)
  \/ \E s \in Slots : ClockInSave(s)
  \/ \E e \in Staff : ClockOutFind(e, TRUE)
  \/ \E s \in Slots : ClockOutSave(s)
  \/ CallRequests(TRUE, Staff, {Null, At(1, 0)}, RacePostBodies, DayPutBodies)

\* Clock-in and clock-out of the employee and of the admin together with the
\* admin's call-data requests, handled one at a time.
CallAdminSeqNext ==
  \/ \E e \in Actors : ClockInFind(e, TRUE)
  \/ \E s \in Slots : ClockInSave(s)
  \/ \E e \in Actors : ClockOutFind(e, TRUE)
  \/ \E s \in Slots : ClockOutSave(s)
  \/ CallRequests(TRUE, Admins, {Null}, RacePostBodies, DayPutBodies)

\* Call-data requests interleave between their read and their write.
CallSpec == Init /\ [][CallNext]_vars
\* Call-data requests, handled one at a time.
CallSeqSpec == Init /\ [][CallSeqNext]_vars
\* The employee's call-data requests around their clock-in and clock-out.
CallDaySeqSpec == Init /\ [][CallDaySeqNext]_vars
\* The admin's call-data requests around the clock-ins and clock-outs.
CallAdminSeqSpec == Init /\ [][CallAdminSeqNext]_vars

(***************************************************************************)
(* The attendance hook on its own: a document with any clock and break     *)
(* times is handed to save().                                              *)
(***************************************************************************)
\* Minutes of the first day at which a clock or break time may lie.
HookMinutes == {540, 600, 780, 1021}
HookTimes == {Null} \cup {At(1, m) : m \in HookMinutes}

\* The documents handed to save().
HookDocs ==
  {[NewAttendance(1, "e1", At(1, 0), ci, co, st) EXCEPT !.breakStart = bs,
                                                       !.breakEnd = be] :
     ci \in HookTimes, co \in HookTimes, bs \in HookTimes, be \in HookTimes,
     st \in {"Present", "Absent"}}

HookInit ==
  /\ now = At(1, 540)
  /\ attendance = {}
  /\ attNextId = 1
  /\ \E doc \in HookDocs :
       attReq = [s \in Slots |->
                   IF s = 1 THEN AttRequest("save", "adm", "e1", doc.date, doc) ELSE Idle]
  /\ attResp = NoResponse
  /\ LeaveInit
  /\ CallInit

\* attendance.save(): the hook, then the write.
HookSave(s) ==
  /\ attReq[s].op = "save"
  /\ attendance' = attendance \cup {AttendancePreSave(attReq[s].snap)}
  /\ attNextId' = attNextId + 1
  /\ attReq' = [attReq EXCEPT ![s] = Idle]
  /\ UNCHANGED <<now, attResp, leaveVars, callVars>>

HookNext == \E s \in Slots : HookSave(s)
HookSpec == HookInit /\ [][HookNext]_vars

Next == AttNext \/ AttUpdate \/ LeaveNext \/ CallNext
Spec == Init /\ [][Next]_vars

(***************************************************************************)
(* Attendance claims.                                                      *)
(***************************************************************************)
\* The calendar day of a timestamp.
DayOf(t) == t \div DayMin

\* The stored records of employee e dated on the calendar day of t.
RecordsOn(e, t) == {r \in attendance : r.employee = e /\ DayOf(r.date) = DayOf(t)}

\* C3: a clock-in by an employee who already has a record for the current
\* calendar day is answered with the already-clocked-in conflict, which reports
\* that record's clockIn, clockOut and status; no record is created and the
\* stored records are unchanged.
C3_DuplicateClockInRefused ==
  [][\A e \in Staff :
       (attResp'.op = "clockIn" /\ attResp'.actor = e /\ RecordsOn(e, now) # {})
       => /\ attResp'.code = "400_ALREADY_CLOCKED_IN"
          /\ attendance' = attendance
          /\ \E r \in RecordsOn(e, now) :
               /\ attResp'.rec.clockIn = r.clockIn
               /\ attResp'.rec.clockOut = r.clockOut
               /\ attResp'.rec.status = r.status]_vars

\* A second clock-in was refused on a day the employee had already clocked out.
C3_Witness ==
  /\ attResp.code = "400_ALREADY_CLOCKED_IN"
  /\ attResp.rec.clockIn # Null
  /\ attResp.rec.clockOut # Null

\* C4: at most one attendance record per (employee, calendar day).
C4_OneRecordPerEmployeeDay ==
  \A r1, r2 \in attendance :
    (r1.employee = r2.employee /\ DayOf(r1.date) = DayOf(r2.date)) => r1 = r2

\* An open record: clocked in and not clocked out.
IsOpen(r) == r.clockIn # Null /\ r.clockOut = Null

\* C5: a clock-out by an employee with no open record for today is answered
\* not-clocked-in, a clock-out when today's record has clockOut set is answered
\* already-clocked-out, and in both cases the stored records are unchanged.
C5_ClockOutRefused ==
  [][\A e \in Staff :
       (attResp'.op = "clockOut" /\ attResp'.actor = e)
       => /\ (\E r \in RecordsOn(e, now) : r.clockOut # Null)
               => (attResp'.code = "400_ALREADY_CLOCKED_OUT" /\ attendance' = attendance)
          /\ (\A r \in RecordsOn(e, now) : ~IsOpen(r) /\ r.clockOut = Null)
               => (attResp'.code = "404_NO_CLOCK_IN" /\ attendance' = attendance)]_vars

\* C6: once a record has clockOut set, no clock-out request changes it.
C6_ClockOutOnce ==
  [][attResp'.op = "clockOut"
       => \A r \in attendance : r.clockOut # Null => r \in attendance']_vars

\* C7: a record with both clock times has totalHours = max(0, worked - break)
\* in hours, unrounded, and overtimeHours = max(0, totalHours - 8); both >= 0.
C7_HoursDerived ==
  \A r \in attendance :
    (r.clockIn # Null /\ r.clockOut # Null)
    => LET b == IF r.breakStart # Null /\ r.breakEnd # Null
                THEN r.breakEnd - r.breakStart ELSE 0
           minutes == (r.clockOut - r.clockIn) - b
       IN  /\ r.totalHours * HourMin = (IF minutes > 0 THEN minutes ELSE 0) * HourUnit
           /\ r.overtimeHours =
                (IF r.totalHours > 8 * HourUnit THEN r.totalHours - 8 * HourUnit ELSE 0)
           /\ r.totalHours >= 0
           /\ r.overtimeHours >= 0

\* A record with overtime whose hours are no multiple of 0.01.
C7_Witness ==
  \E r \in attendance :
    /\ r.clockIn # Null /\ r.clockOut # Null
    /\ r.overtimeHours > 0
    /\ r.totalHours % HourMin # 0

\* C8: a record that lacks clockIn or clockOut has totalHours = 0 and
\* overtimeHours = 0.
C8_NoHoursWithoutBothTimes ==
  \A r \in attendance :
    (r.clockIn = Null \/ r.clockOut = Null) => (r.totalHours = 0 /\ r.overtimeHours = 0)

\* The records a step writes: inserted, or stored with another content.
Written == attendance' \ attendance

\* C9: a record written with both clock times has status Present from 8 hours,
\* Half Day from 4 hours, Late above 0 hours, whatever status the request
\* supplied; with 0 hours it has the status the request supplied, else the
\* status it had.
C9_StatusDerived ==
  [][\A r \in Written :
       (r.clockIn # Null /\ r.clockOut # Null)
       => /\ r.totalHours >= 8 * HourUnit => r.status = "Present"
          /\ (r.totalHours >= 4 * HourUnit /\ r.totalHours < 8 * HourUnit)
               => r.status = "Half Day"
          /\ (r.totalHours > 0 /\ r.totalHours < 4 * HourUnit) => r.status = "Late"
          /\ r.totalHours = 0
               => IF attResp'.body.status # ""
                  THEN r.status = attResp'.body.status
                  ELSE \E old \in attendance : old.id = r.id /\ r.status = old.status]_vars

\* A manual entry that supplied Absent is stored as Late.
C9_Witness ==
  /\ attResp.op = "manual"
  /\ attResp.code = "201"
  /\ attResp.body.status = "Absent"
  /\ \E r \in attendance :
       r.clockIn # Null /\ r.clockOut # Null /\ r.totalHours > 0 /\ r.status = "Late"

\* Two intervals [s1, e1] and [s2, e2] share an instant.
Overlap(l1, l2) == l1.startDate <= l2.endDate /\ l2.startDate <= l1.endDate

\* C1: no two stored leaves of one employee, both Pending or Approved, have
\* overlapping closed intervals [startDate, endDate].
C1_NoOverlappingLeaves ==
  \A l1, l2 \in leaves :
    (/\ l1.id # l2.id
     /\ l1.employee = l2.employee
     /\ l1.status \in {"Pending", "Approved"}
     /\ l2.status \in {"Pending", "Approved"})
    => ~Overlap(l1, l2)

\* C2: a leave is inserted Pending; a stored leave's status changes only from
\* Pending, to Approved or Rejected; an approve or a reject of a leave that is
\* not Pending is refused and changes no stored leave.
C2_StatusTransitions ==
  [][/\ \A l \in leaves' :
          (\A k \in leaves : k.id # l.id) => l.status = "Pending"
     /\ \A k \in leaves, l \in leaves' :
          (k.id = l.id /\ k.status # l.status)
          => (k.status = "Pending" /\ l.status \in {"Approved", "Rejected"})
     /\ (/\ leaveResp'.op \in {"approve", "reject"}
         /\ \E k \in leaves : k.id = leaveResp'.id /\ k.status # "Pending")
        => /\ leaveResp'.code \in {"400_NOT_PENDING", "403"}
           /\ leaves' = leaves]_vars

\* An approve of a Rejected leave was refused by the status check.
C2_Witness ==
  /\ leaveResp.op = "approve"
  /\ leaveResp.code = "400_NOT_PENDING"
  /\ \E k \in leaves : k.id = leaveResp.id /\ k.status = "Rejected"

\* C10: a create answered 201 has stored a leave whose totalDays is the value
\* the route computed and whose isHalfDay is the request's: 0.5 with the
\* half-day flag, the inclusive day count without it.
C10_HalfDayPersisted ==
  [][\A s \in Slots :
       (leaveReq[s].op = "create" /\ leaveReq'[s].op = "idle" /\ leaveResp'.code = "201")
       => LET b == leaveReq[s].body
          IN  \E l \in leaves' \ leaves :
                /\ l.id = leaveResp'.id
                /\ l.isHalfDay = b.isHalfDay
                /\ l.totalDays = RouteTotalDays(b.startDate, b.endDate, b.isHalfDay)
                /\ b.isHalfDay => l.totalDays = HalfDayTotal
                /\ ~b.isHalfDay => l.totalDays = InclusiveDays(b.startDate, b.endDate)]_vars

\* A create with the half-day flag was answered 201.
C10_Witness ==
  /\ leaveResp.op = "create"
  /\ leaveResp.code = "201"
  /\ leaveResp.body.isHalfDay

\* Two Pending leaves of one employee overlap.
C1_Witness ==
  \E l1, l2 \in leaves :
    /\ l1.id # l2.id
    /\ l1.employee = l2.employee
    /\ l1.status = "Pending" /\ l2.status = "Pending"
    /\ Overlap(l1, l2)

\* The whole days from start to end, in half days of totalDays.
WholeDays(start, end) == ((end - start) \div DayMin) * (HalfDayTotal + HalfDayTotal)

\* totalDays of one day, in half days.
OneDay == HalfDayTotal + HalfDayTotal

\* C11: every stored leave without the half-day flag and with startDate <=
\* endDate has totalDays = the whole days from startDate to endDate, plus 1.
C11_InclusiveDayCount ==
  \A l \in leaves :
    (~l.isHalfDay /\ l.startDate <= l.endDate)
    => l.totalDays = WholeDays(l.startDate, l.endDate) + OneDay

\* A stored leave of a single instant counts one day.
C11_Witness ==
  \E l \in leaves :
    ~l.isHalfDay /\ l.startDate = l.endDate /\ l.totalDays = OneDay

\* The calendar days from the day of start to the day of end, inclusive, in
\* half days of totalDays.
CalendarDays(start, end) == (DayOf(end) - DayOf(start) + 1) * OneDay

\* C12: totalDays of a stored leave without the half-day flag depends only on
\* the calendar days of startDate and endDate: it is the inclusive count of
\* calendar days, and 1 when both are on the same calendar day.
C12_DayCountIgnoresTimeOfDay ==
  \A l \in leaves :
    (~l.isHalfDay /\ l.startDate <= l.endDate)
    => /\ l.totalDays = CalendarDays(l.startDate, l.endDate)
       /\ DayOf(l.startDate) = DayOf(l.endDate) => l.totalDays = OneDay

\* A stored leave from midnight to noon of one calendar day.
C12_Witness ==
  \E l \in leaves :
    /\ ~l.isHalfDay
    /\ l.startDate < l.endDate
    /\ DayOf(l.startDate) = DayOf(l.endDate)

\* The body gives both dates, the end before the start.
Inverted(b) == b.startDate # Null /\ b.endDate # Null /\ b.endDate < b.startDate

\* C13: every stored leave has endDate >= startDate, and a create or an update
\* whose body has endDate before startDate is answered with the range error
\* and changes no stored leave.
C13_ValidRange ==
  [][/\ \A l \in leaves' : l.endDate >= l.startDate
     /\ (leaveResp'.op \in {"create", "update"} /\ Inverted(leaveResp'.body))
        => (leaveResp'.code = "400_RANGE" /\ leaves' = leaves)]_vars

\* An update of a stored leave with inverted dates was refused.
C13_Witness ==
  /\ leaveResp.op = "update"
  /\ leaveResp.code = "400_RANGE"
  /\ Inverted(leaveResp.body)
  /\ \E l \in leaves : l.id = leaveResp.id

\* The stored leaves of employee e, Pending or Approved, whose closed interval
\* meets the closed interval of body b.
Blocking(e, b) ==
  {l \in leaves :
     /\ l.employee = e
     /\ l.status \in {"Pending", "Approved"}
     /\ l.startDate <= b.endDate
     /\ l.endDate >= b.startDate}

\* The body passes the checks create makes before its overlap test.
Checked(b) == b.fields # "missing" /\ b.startDate <= b.endDate /\ b.startDate >= now

Decided == {l \in leaves' : l.id = leaveResp'.id}

\* C15: after a successful approve the stored leave holds the acting admin's
\* id and the time of the approval; after a successful reject it holds the
\* acting admin's id; a Pending leave holds neither an actor nor a timestamp;
\* once set they never change.  (Of a reject only the actor is asked: the
\* schema's updatedAt, rewritten by every save, is not part of the documents
\* here.)
C15_TransitionsStamped ==
  [][/\ (leaveResp'.op = "approve" /\ leaveResp'.code = "200")
        => \A l \in Decided :
             l.status = "Approved" /\ l.approvedBy = leaveResp'.actor /\ l.approvedDate = now
     /\ (leaveResp'.op = "reject" /\ leaveResp'.code = "200")
        => \A l \in Decided :
             l.status = "Rejected" /\ l.approvedBy = leaveResp'.actor
     /\ \A l \in leaves' :
          l.status = "Pending" => (l.approvedBy = "" /\ l.approvedDate = Null)
     /\ \A k \in leaves, l \in leaves' :
          k.id = l.id
          => /\ k.approvedBy # "" => l.approvedBy = k.approvedBy
             /\ k.approvedDate # Null => l.approvedDate = k.approvedDate]_vars

\* A reject was answered 200 and the leave is stored Rejected.
C15_Witness ==
  /\ leaveResp.op = "reject"
  /\ leaveResp.code = "200"
  /\ \E l \in leaves : l.id = leaveResp.id /\ l.status = "Rejected"

\* C16: an approve or a reject by an actor who is no admin is answered 403
\* and changes no stored leave, and no such request proceeds to a save.
C16_DecisionsNeedAdmin ==
  [][/\ (leaveResp'.op \in {"approve", "reject"} /\ leaveResp'.actor \notin Admins)
        => (leaveResp'.code = "403" /\ leaves' = leaves)
     /\ \A s \in Slots :
          (leaveReq'[s].op \in {"approve", "reject"} /\ leaveReq'[s] # leaveReq[s])
          => leaveReq'[s].actor \in Admins]_vars

\* An employee's reject of another employee's Approved leave was refused.
C16_Witness ==
  /\ leaveResp.op = "reject"
  /\ leaveResp.code = "403"
  /\ leaveResp.actor \notin Admins
  /\ \E l \in leaves :
       l.id = leaveResp.id /\ l.employee # leaveResp.actor /\ l.status = "Approved"

\* The stored leave of this id is the actor's own and Pending.
OwnPending(a, id) ==
  \E l \in leaves : l.id = id /\ l.employee = a /\ l.status = "Pending"

\* C17: an update or a delete by an actor who is no admin, of a stored leave
\* that is not the actor's own or not Pending, is refused and changes no stored
\* leave, and proceeds to no write; an admin's delete of a stored leave is
\* never refused, whatever the status, and removes the leave.
C17_OwnerRights ==
  [][/\ (/\ leaveResp'.op \in {"update", "delete"}
         /\ leaveResp'.actor \notin Admins
         /\ \E l \in leaves : l.id = leaveResp'.id
         /\ ~OwnPending(leaveResp'.actor, leaveResp'.id))
        => (leaveResp'.code \in {"403", "400_NOT_PENDING"} /\ leaves' = leaves)
     /\ \A s \in Slots :
          (/\ leaveReq'[s].op \in {"update", "delete"}
           /\ leaveReq'[s] # leaveReq[s]
           /\ leaveReq'[s].actor \notin Admins)
          => OwnPending(leaveReq'[s].actor, leaveReq'[s].snap.id)
     /\ (/\ leaveResp'.op = "delete"
         /\ leaveResp'.actor \in Admins
         /\ \E l \in leaves : l.id = leaveResp'.id)
        => /\ leaveResp'.code = "200"
           /\ \A l \in leaves' : l.id # leaveResp'.id]_vars

\* An employee's delete of the employee's own Approved leave was refused.
C17_Witness ==
  /\ leaveResp.op = "delete"
  /\ leaveResp.code = "400_NOT_PENDING"
  /\ \E l \in leaves :
       l.id = leaveResp.id /\ l.employee = leaveResp.actor /\ l.status = "Approved"

\* The leaves a step inserts.
Inserted == {l \in leaves' : \A k \in leaves : k.id # l.id}

\* C18: a create whose startDate is before the clock is refused and stores
\* nothing; it is refused with the past-date error when its fields are given
\* and its dates are in order (the checks made before); every leave is
\* inserted with startDate >= the clock.
C18_NoPastLeave ==
  [][/\ (leaveResp'.op = "create" /\ leaveResp'.body.startDate < now)
        => LET b == leaveResp'.body
           IN  /\ leaveResp'.code \in {"400_REQUIRED", "400_RANGE", "400_PAST"}
               /\ leaves' = leaves
               /\ (b.fields # "missing" /\ b.startDate <= b.endDate)
                    => leaveResp'.code = "400_PAST"
     /\ \A s \in Slots :
          (leaveReq'[s].op = "create" /\ leaveReq'[s] # leaveReq[s])
          => leaveReq'[s].body.startDate >= now
     /\ \A l \in Inserted : l.startDate >= now]_vars

\* A create for the running day, from its midnight, was refused as past.
C18_Witness ==
  /\ leaveResp.op = "create"
  /\ leaveResp.code = "400_PAST"
  /\ DayOf(leaveResp.body.startDate) = DayOf(now)
  /\ leaveResp.body.startDate < now

\* C19: a success response of create-leave, approve, reject or clock-out
\* implies that the change it reports is stored: the leave inserted, the status
\* Approved or Rejected stored, the clockOut stored.
C19_SuccessMeansPersisted ==
  [][/\ (leaveResp'.op = "create" /\ leaveResp'.code \in {"201", "201_MOCK"})
        => \E l \in Inserted :
             /\ l.employee = leaveResp'.actor
             /\ l.startDate = leaveResp'.body.startDate
             /\ l.endDate = leaveResp'.body.endDate
     /\ (leaveResp'.op = "approve" /\ leaveResp'.code \in {"200", "200_MOCK"})
        => \E l \in leaves' : l.id = leaveResp'.id /\ l.status = "Approved"
     /\ (leaveResp'.op = "reject" /\ leaveResp'.code \in {"200", "200_MOCK"})
        => \E l \in leaves' : l.id = leaveResp'.id /\ l.status = "Rejected"
     /\ (attResp'.op = "clockOut" /\ attResp'.code \in {"200", "200_MOCK"})
        => \E r \in attendance' : r.employee = attResp'.actor /\ r.clockOut = now]_vars

\* A create whose save was refused by the schema was answered 201.
C19_Witness ==
  /\ leaveResp.op = "create"
  /\ leaveResp.code = "201_MOCK"
  /\ leaveResp.body.fields = "invalid"

(***************************************************************************)
(* Call-data claims.                                                       *)
(***************************************************************************)
\* C20: every stored call-data record carries the performance score computed
\* from its own current counters (visitedToday * 40 + interestedStudents * 30 +
\* totalCallTime * 0.2 + totalCalls * 0.1), whatever requests were made and
\* whatever performanceScore their bodies carried.
C20_ScoreDerived == \A c \in calls : c.performanceScore = CallScore(c)

\* A PUT whose body carries a performanceScore has been answered 200 and the
\* record it wrote is stored with another score.
C20_Witness ==
  /\ callResp.op = "put"
  /\ callResp.code = "200"
  /\ callResp.body.performanceScore # Null
  /\ \E c \in calls :
       /\ c.id = callResp.id
       /\ c.totalCalls = callResp.body.totalCalls
       /\ c.performanceScore # callResp.body.performanceScore

\* A body whose four counters pass the schema's validators.
ValidCounters(b) ==
  /\ b.totalCalls >= 0
  /\ b.totalCallTime >= 0
  /\ b.interestedStudents >= 0
  /\ b.visitedToday >= 0

\* The POST in slot s completes in this step.
PostCompletes(s) == callReq[s].op = "post" /\ callReq'[s] = CallIdle

\* C21: no two stored call-data records share an employee and a calendar day.
\* A POST that found a record for the day and succeeds writes that record and
\* adds none; a POST that found none and whose insert meets a record stored
\* for the day in the meantime is answered with the already-exists error, not
\* with the server error, and changes nothing.
C21_OnePerEmployeeDay ==
  /\ [](\A c, d \in calls :
          (c.employee = d.employee /\ DayOf(c.date) = DayOf(d.date)) => c = d)
  /\ [][\A s \in Slots :
          PostCompletes(s) =>
            /\ (callReq[s].snap # NoCall /\ callResp'.code = "201") =>
                  /\ callResp'.id = callReq[s].snap.id
                  /\ {c.id : c \in calls'} = {c.id : c \in calls}
            /\ (/\ callReq[s].snap = NoCall
                /\ ValidCounters(callResp'.body)
                /\ CallFindByDay(callReq[s].emp, callReq[s].date) # {}) =>
                  /\ callResp'.code = "400_EXISTS"
                  /\ calls' = calls]_vars

\* Two POSTs of one employee for one day both found no record; the first has
\* inserted and the second has been answered with the already-exists error.
C21_Witness ==
  /\ callResp.op = "post"
  /\ callResp.code = "400_EXISTS"
  /\ \E c \in calls : c.employee = callResp.actor /\ DayOf(c.date) = DayOf(now)

\* The attendance records of employee e dated today that carry a clockOut.
ClockedOutToday(e) == {r \in RecordsOn(e, now) : r.clockOut # Null}

\* The last step completed a call-data request of a, a look-up or a write.
CallStepOf(a) ==
  \/ callResp' # callResp /\ callResp'.actor = a
  \/ \E s \in Slots : callReq[s].op = "idle" /\ callReq'[s].actor = a
  \/ \E s \in Slots : callReq[s].actor = a /\ callReq'[s].op = "idle"

\* The stored call data of employee e dated today.
CallsToday(e) == {c \in calls : c.employee = e /\ DayOf(c.date) = DayOf(now)}

\* C22: while a non-admin has clocked out today, none of their requests writes
\* their call data dated today: no POST for today and no PUT or DELETE of a
\* record dated today gets past the checked-out test, a PUT or DELETE of such
\* a record is answered with the checked-out error, no request is answered
\* with a success for a record dated today, and the stored call data dated
\* today is unchanged.
C22_CheckedOutRefused ==
  [][\A a \in Staff :
       (ClockedOutToday(a) # {} /\ CallStepOf(a)) =>
         /\ CallsToday(a)' = CallsToday(a)
         /\ \A s \in Slots :
              (callReq'[s].op # "idle" /\ callReq'[s].actor = a) =>
                 DayOf(callReq'[s].date) # DayOf(now)
         /\ callResp'.code \in {"200", "201"} =>
               \A c \in CallsToday(a) \cup CallsToday(a)' : c.id # callResp'.id
         /\ (/\ callResp'.op \in {"put", "delete"}
             /\ \E c \in CallsToday(a) : c.id = callResp'.id) =>
               callResp'.code = "400_CHECKED_OUT"]_vars

\* The employee has a record for today, has clocked out today, and their PUT
\* of that record has been refused.
C22_Witness ==
  /\ callResp.op = "put"
  /\ callResp.code = "400_CHECKED_OUT"
  /\ ClockedOutToday(callResp.actor) # {}
  /\ \E c \in calls :
       c.id = callResp.id /\ c.employee = callResp.actor /\ DayOf(c.date) = DayOf(now)

\* The stored call data of employee e dated on day d.
CallsOn(e, d) == {c \in calls : c.employee = e /\ DayOf(c.date) = d}

\* Employee e has an attendance record for day d with a clockOut.
ClockedOutOn(e, d) ==
  \E r \in attendance : r.employee = e /\ DayOf(r.date) = d /\ r.clockOut # Null

\* C23: once a non-admin has clocked out on a day, none of their later
\* requests adds, changes or removes their call data dated that day, on that
\* day or on any later day.
C23_CheckedOutForGood ==
  [][\A a \in Staff, d \in Days :
       (ClockedOutOn(a, d) /\ CallStepOf(a)) => CallsOn(a, d)' = CallsOn(a, d)]_vars

\* On a later day the employee's POST for a day they had clocked out on has
\* been answered 201 and its record is stored.
C23_Witness ==
  /\ callResp.op = "post"
  /\ callResp.code = "201"
  /\ \E c \in calls :
       /\ c.id = callResp.id
       /\ c.employee = callResp.actor
       /\ DayOf(c.date) < DayOf(now)
       /\ ClockedOutOn(c.employee, DayOf(c.date))

\* C24: no call-data request of an admin is answered with the checked-out
\* error.  A POST that carries its counters is answered 201, and a PUT or a
\* DELETE of a stored record 200, whoever has clocked out.
C24_AdminBypass ==
  [][\A a \in Admins :
       (CallStepOf(a) /\ callResp' # NoCallResponse) =>
         /\ callResp'.code # "400_CHECKED_OUT"
         /\ callResp'.op = "post" => callResp'.code \in {"201", "400_REQUIRED"}
         /\ callResp'.op \in {"put", "delete"} =>
               \/ callResp'.code = "200"
               \/ callResp'.code = "404" /\ CallStored(callResp'.id) = {}]_vars

\* The admin and the employee have both clocked out today, and the admin's
\* PUT of the employee's record dated today has been answered 200.
C24_Witness ==
  /\ callResp.op = "put"
  /\ callResp.code = "200"
  /\ callResp.actor \in Admins
  /\ ClockedOutToday(callResp.actor) # {}
  /\ \E c \in calls :
       /\ c.id = callResp.id
       /\ c.employee \in Staff
       /\ DayOf(c.date) = DayOf(now)
       /\ ClockedOutToday(c.employee) # {}

\* A body that gives one of the four counters a negative value.
NegativeCounter(b) ==
  \E f \in {"totalCalls", "totalCallTime", "interestedStudents", "visitedToday"} :
    b[f] # Null /\ b[f] < 0

\* C25: the four counters and the score of every stored call-data record are
\* at least 0; a POST or PUT whose body carries a negative counter is answered
\* with an error and changes no stored record.
C25_CountersNonNegative ==
  /\ [](\A c \in calls : CallValid(c))
  /\ [][(callResp' # callResp /\ NegativeCounter(callResp'.body)) =>
          /\ callResp'.code \notin {"200", "201"}
          /\ calls' = calls]_vars

\* A PUT giving a stored record a negative counter has been answered 500.
C25_Witness ==
  /\ callResp.op = "put"
  /\ callResp.code = "500"
  /\ NegativeCounter(callResp.body)
  /\ CallStored(callResp.id) # {}

\* The stored call data of employees other than e.
CallsOfOthers(e) == {c \in calls : c.employee # e}

\* C30: no request of a non-admin adds, changes or removes a call-data record
\* of another employee.  Their POST naming an employee is answered 403 (with
\* the required-fields error when it lacks a counter) and goes no further;
\* their PUT or DELETE of another employee's record is answered 403; no stored
\* record changes in either case.
C30_OwnCallDataOnly ==
  [][\A a \in Staff :
       /\ CallStepOf(a) => CallsOfOthers(a)' = CallsOfOthers(a)
       /\ \A emp \in Employees, d \in {Null, At(1, 0)}, complete \in BOOLEAN :
            (calls' = calls /\ CallPostFind(a, emp, d, complete, TRUE)) =>
              /\ callResp'.code = IF complete THEN "403" ELSE "400_REQUIRED"
              /\ callReq' = callReq
              /\ calls' = calls
       /\ (/\ callResp' # callResp
           /\ callResp'.actor = a
           /\ callResp'.op \in {"put", "delete"}
           /\ \E c \in CallsOfOthers(a) : c.id = callResp'.id) =>
             /\ callResp'.code = "403"
             /\ callReq' = callReq
             /\ calls' = calls]_vars

\* The employee's DELETE of a stored record of another employee has been
\* answered 403.
C30_Witness ==
  /\ callResp.op = "delete"
  /\ callResp.code = "403"
  /\ callResp.actor \in Staff
  /\ \E c \in CallsOfOthers(callResp.actor) : c.id = callResp.id

(***************************************************************************)
(* Further attendance and leave claims.                                    *)
(***************************************************************************)
\* The insert of the clock-in or manual entry in slot s meets a stored record
\* with its employee and date.
HitsUniqueKey(s) ==
  /\ attReq[s].op \in {"clockIn", "manual"}
  /\ \E r \in attendance :
       /\ r.employee = attReq[s].emp
       /\ r.date = IF attReq[s].op = "clockIn" THEN now ELSE attReq[s].date

\* C26: when the insert of a clock-in or of a manual entry meets the unique
\* (employee, date) key, the request is answered with a 400 conflict, neither
\* with the server error nor with a success, and the stored records are
\* unchanged.
C26_DuplicateKeyIsConflict ==
  [][\A s \in Slots :
       (HitsUniqueKey(s) /\ attReq'[s] = Idle) =>
         /\ attResp'.code \in {"400_DATABASE_VALIDATION_ERROR", "400_EXISTS"}
         /\ attendance' = attendance]_vars

\* A manual entry whose insert met the unique key has been answered 500.
C26_Witness ==
  /\ attResp.op = "manual"
  /\ attResp.code = "500"
  /\ attendance # {}

\* The record as save() stores it when it carries no break.
WithoutBreak(r) == AttendancePreSave([r EXCEPT !.breakStart = Null, !.breakEnd = Null])

\* C27: a stored record with both clock times and a break pair inside
\* [clockIn, clockOut] has the totalHours of the same record without break
\* less breakEnd - breakStart; a stored record with only one of breakStart and
\* breakEnd has the totalHours, overtimeHours and status of the same record
\* without break.
C27_BreakSubtracted ==
  \A r \in attendance :
    /\ (/\ r.clockIn # Null /\ r.clockOut # Null
        /\ r.breakStart # Null /\ r.breakEnd # Null
        /\ r.clockIn <= r.breakStart /\ r.breakStart <= r.breakEnd
        /\ r.breakEnd <= r.clockOut) =>
          r.totalHours = WithoutBreak(r).totalHours - (r.breakEnd - r.breakStart) * Cent
    /\ ((r.breakStart = Null) # (r.breakEnd = Null)) =>
          /\ r.totalHours = WithoutBreak(r).totalHours
          /\ r.overtimeHours = WithoutBreak(r).overtimeHours
          /\ r.status = WithoutBreak(r).status

\* A stored record clocked 09:00 to 17:01 with a break from 10:00 to 13:00:
\* 5 hours and 1 minute, where the record without break has 8 hours and 1
\* minute.
C27_Witness ==
  \E r \in attendance :
    /\ r.clockIn = At(1, 540) /\ r.clockOut = At(1, 1021)
    /\ r.breakStart = At(1, 600) /\ r.breakEnd = At(1, 780)
    /\ r.totalHours = 301 * Cent
    /\ r.status = "Half Day"
    /\ WithoutBreak(r).totalHours = 481 * Cent
    /\ WithoutBreak(r).status = "Present"

\* The approve or reject in slot s completes in this step with a success.
DecisionSucceeds(s) ==
  /\ leaveReq[s].op \in {"approve", "reject"}
  /\ leaveReq'[s] = LeaveIdle
  /\ leaveResp'.code = "200"

\* C28: of the approve and reject requests that read one Pending leave, at most
\* one is answered with a success: a success is given only for a leave that is
\* still Pending when it is written, and the stored status is then the one of
\* that request.
C28_OneDecisionWins ==
  [][\A s \in Slots :
       DecisionSucceeds(s) =>
         /\ \E k \in leaves : k.id = leaveReq[s].snap.id /\ k.status = "Pending"
         /\ \E l \in leaves' :
              /\ l.id = leaveReq[s].snap.id
              /\ l.status = IF leaveReq[s].op = "approve" THEN "Approved" ELSE "Rejected"]_vars

\* A reject has been answered with a success for a leave that an approve had
\* already written.
C28_Witness ==
  /\ leaveResp.op = "reject"
  /\ leaveResp.code = "200"
  /\ \E l \in leaves :
       l.id = leaveResp.id /\ l.status = "Rejected" /\ l.approvedBy # ""

====
